---- MODULE Spec2Model ----
(***************************************************************************)
(* Model of the Cosmic Research Helper (src/unnamed/part_000): the CSV     *)
(* normalisation done by fetchData, the App state edited by the user, the  *)
(* DataRate derivation and the MissionTable scoring and ranking step.      *)
(*                                                                         *)
(* Numbers.  A CSV cell is a string; Number(cell) is either a number or    *)
(* NaN.  A value that may be NaN is the record [nan, v].  The yields r1..r4*)
(* are kept in halves (the code multiplies by (100+dataRate)/100), the     *)
(* importance weights and the scores as numerators over a denominator that *)
(* is common to all rows of one render; arithmetic is exact (rationals),   *)
(* where the code uses IEEE doubles.  Display-only fields of a mission     *)
(* (name, credits, missionClass) are left out.                             *)
(***************************************************************************)
EXTENDS Integers, Sequences, FiniteSets, TLC

VARIABLES classJobRaw, missionUnitRaw, missionRewardRaw, cosmoToolRaw,
          pc, missions, jobs, activeJob, researchValues,
          jobLevels, jobResearch, missionProgress, dataRate,
          table, unlockedTiers, nEdits

vars == <<classJobRaw, missionUnitRaw, missionRewardRaw, cosmoToolRaw,
          pc, missions, jobs, activeJob, researchValues,
          jobLevels, jobResearch, missionProgress, dataRate,
          table, unlockedTiers, nEdits>>

rawVars == <<classJobRaw, missionUnitRaw, missionRewardRaw, cosmoToolRaw>>

----------------------------------------------------------------------------
(* JavaScript values *)

\* a CSV cell: its text, and what Number(text) gives
Num(i) == [text |-> "#", isNum |-> TRUE, num |-> i]
Txt(s) == [text |-> s, isNum |-> FALSE, num |-> 0]

NaN == [nan |-> TRUE, v |-> 0]
Val(i) == [nan |-> FALSE, v |-> i]

\* Number(cell)
Number(cell) == IF cell.isNum THEN Val(cell.num) ELSE NaN

\* x || 0 for a number x
OrZero(x) == IF x.nan THEN 0 ELSE x.v

\* row[c]: undefined past the end of the row, and Number(undefined) = NaN
Cell(row, c) == IF c \in DOMAIN row THEN row[c] ELSE Txt("undefined")

Null == [isNull |-> TRUE]

Max2(a, b) == IF a >= b THEN a ELSE b
Min2(a, b) == IF a <= b THEN a ELSE b

tiers == <<"I", "II", "III", "IV">>

----------------------------------------------------------------------------
(* Normalisation *)

RECURSIVE MapSet(_, _, _)
\* Map.prototype.set on an insertion-ordered map kept as a sequence of entries
MapSet(map, key, value) ==
  IF map = <<>> THEN << [key |-> key, value |-> value] >>
  ELSE IF Head(map).key = key
       THEN << [key |-> key, value |-> value] >> \o Tail(map)
       ELSE << Head(map) >> \o MapSet(Tail(map), key, value)

MapHas(map, key) == \E i \in 1..Len(map) : map[i].key = key
MapGet(map, key) == map[CHOOSE i \in 1..Len(map) : map[i].key = key].value

RECURSIVE parseClassJobsFrom(_, _)
parseClassJobsFrom(data, map) ==
  IF data = <<>> THEN map
  ELSE LET row == Head(data)
           valid == Number(Cell(row, 9))
           id == Number(Cell(row, 0))
           abbreviation == Cell(row, 2).text
       IN  parseClassJobsFrom(Tail(data),
             IF ~valid.nan /\ valid.v >= 0
             THEN MapSet(map, id, [id |-> id, abbreviation |-> abbreviation])
             ELSE map)

parseClassJobs(data) == parseClassJobsFrom(data, <<>>)

RECURSIVE AddPairs(_, _)
\* the loop over the (type, qty) pairs of one reward row
AddPairs(pairs, researchRewards) ==
  IF pairs = <<>> THEN researchRewards
  ELSE LET type == Head(pairs)[1]
           qty == Head(pairs)[2]
       IN  AddPairs(Tail(pairs),
             IF ~type.nan /\ type.v >= 1 /\ type.v <= 4 /\ ~qty.nan
             THEN [researchRewards EXCEPT ![type.v] = @ + qty.v]
             ELSE researchRewards)

RECURSIVE parseMissionRewardsFrom(_, _)
parseMissionRewardsFrom(data, map) ==
  IF data = <<>> THEN map
  ELSE LET row == Head(data)
           id == Number(Cell(row, 0))
           pairs == << <<Number(Cell(row, 8)), Number(Cell(row, 9))>>,
                       <<Number(Cell(row, 11)), Number(Cell(row, 12))>>,
                       <<Number(Cell(row, 14)), Number(Cell(row, 15))>> >>
           researchRewards == AddPairs(pairs, [t \in 1..4 |-> 0])
       IN  parseMissionRewardsFrom(Tail(data),
             MapSet(map, id, [id |-> id, researchRewards |-> researchRewards]))

parseMissionRewards(data) == parseMissionRewardsFrom(data, <<>>)

\* Array.prototype.slice(start, end) of a row whose columns are 0-based
\* (column c of the row is row[c + 1])
Slice(row, start, end) ==
  [k \in 1..Max2(Min2(end, Len(row)) - start, 0) |-> row[start + k]]

requiredStart(i) == 2 + i * 18
maxStart(i) == 10 + i * 18

\* precondition: data is not empty (lastRow.slice throws on undefined)
parseCosmoToolData(data) ==
  LET lastRow == data[Len(data)]
      NumberAll(cells) == [k \in 1..Len(cells) |-> Number(cells[k])]
  IN  [required |-> [i \in 1..4 |->
                      NumberAll(Slice(lastRow, requiredStart(i - 1), requiredStart(i - 1) + 9))],
       max |-> [i \in 1..4 |->
                      NumberAll(Slice(lastRow, maxStart(i - 1), maxStart(i - 1) + 9))]]

\* x - 1
Minus1(x) == IF x.nan THEN NaN ELSE Val(x.v - 1)

RECURSIVE missionLoopRawId(_, _, _)
\* missionLoop looking the job up under the raw job id
missionLoopRawId(rows, jobMap, rewardMap) ==
  IF rows = <<>> THEN <<>>
  ELSE LET row == Head(rows)
           rawJobId == Number(Cell(row, 3))
           rewardId == Number(Cell(row, 9))
           crit == Number(Cell(row, 13))
           rest == missionLoopRawId(Tail(rows), jobMap, rewardMap)
       IN  IF ~MapHas(jobMap, rawJobId) \/ ~MapHas(rewardMap, rewardId)
           THEN rest
           ELSE LET job == MapGet(jobMap, rawJobId)
                    reward == MapGet(rewardMap, rewardId)
                IN  << [id |-> Number(Cell(row, 0)),
                        research1 |-> reward.researchRewards[1],
                        research2 |-> reward.researchRewards[2],
                        research3 |-> reward.researchRewards[3],
                        research4 |-> reward.researchRewards[4],
                        jobAbbreviation |-> job.abbreviation,
                        isCritical |-> crit.nan \/ crit.v # 0] >> \o rest

RECURSIVE missionLoop(_, _, _)
\* the loop of fetchData over the mission rows
missionLoop(rows, jobMap, rewardMap) ==
  IF rows = <<>> THEN <<>>
  ELSE LET row == Head(rows)
           id == Number(Cell(row, 0))
           rawJobId == Number(Cell(row, 3))
           rewardId == Number(Cell(row, 9))
           correctedJobId == Minus1(rawJobId)
           crit == Number(Cell(row, 13))
           isCritical == crit.nan \/ crit.v # 0
           rest == missionLoop(Tail(rows), jobMap, rewardMap)
       IN  IF ~MapHas(jobMap, correctedJobId) \/ ~MapHas(rewardMap, rewardId)
           THEN rest
           ELSE LET job == MapGet(jobMap, correctedJobId)
                    reward == MapGet(rewardMap, rewardId)
                IN  << [id |-> id,
                        research1 |-> reward.researchRewards[1],
                        research2 |-> reward.researchRewards[2],
                        research3 |-> reward.researchRewards[3],
                        research4 |-> reward.researchRewards[4],
                        jobAbbreviation |-> job.abbreviation,
                        isCritical |-> isCritical] >> \o rest

jobList(raw) ==
  LET jobMap == parseClassJobs(raw)
  IN  [k \in 1..Len(jobMap) |-> jobMap[k].value.abbreviation]

missionDisplays(jobRaw, unitRaw, rewardRaw) ==
  missionLoop(unitRaw, parseClassJobs(jobRaw), parseMissionRewards(rewardRaw))

----------------------------------------------------------------------------
(* DataRate *)

dataRates == <<0, 50, 50, 100, 100, 150, 150, 150, 150, 150, 150, 150>>

\* the rate DataRate hands to setDataRate: dataRates[completedTiers] || 0
DataRate(levels) ==
  LET completedTiers == Cardinality({j \in DOMAIN levels : levels[j] >= 9})
  IN  IF completedTiers + 1 \in DOMAIN dataRates
      THEN dataRates[completedTiers + 1]
      ELSE 0

----------------------------------------------------------------------------
(* MissionTable: scoring and ranking *)

\* arr[index] || 0 for a 0-based index into an array of numbers
At(arr, index) ==
  IF index + 1 \in DOMAIN arr THEN OrZero(arr[index + 1]) ELSE 0

remainingRequiredOf(rv, level, research) ==
  [i \in 1..4 |->
     LET req == At(rv.required[i], level - 1)
         current == research[tiers[i]]
     IN  Max2(req - current, 0)]

\* remainingMaxOf without the clip to the headroom above the requirement
remainingMaxUnclipped(rv, level, research) ==
  [i \in 1..4 |->
     LET maxVal == At(rv.max[i], level - 1)
         current == research[tiers[i]]
     IN  Max2(maxVal - current, 0)]

remainingMaxOf(rv, level, research) ==
  [i \in 1..4 |->
     LET req == At(rv.required[i], level - 1)
         maxVal == At(rv.max[i], level - 1)
         current == research[tiers[i]]
     IN  Max2(Min2(maxVal - current, maxVal - req), 0)]

\* Math.max(...Object.values(remaining), 1)
maxRemaining(remaining) ==
  CHOOSE m \in {remaining[i] : i \in 1..4} \cup {1} :
    \A n \in {remaining[i] : i \in 1..4} \cup {1} : m >= n

\* totalImportance[i] = remainingRequired/maxRemainingRequired
\*                      + 0.05 * remainingMax/maxRemainingMax,
\* as a numerator over importanceDen
importanceDen(remainingRequired, remainingMax) ==
  20 * maxRemaining(remainingRequired) * maxRemaining(remainingMax)

\* totalImportanceOf with the 0.05 added to every tier instead of weighting
\* the tier's share of the headroom
totalImportanceFlat(remainingRequired, remainingMax) ==
  [i \in 1..4 |->
     20 * remainingRequired[i] * maxRemaining(remainingMax)
       + maxRemaining(remainingMax) * maxRemaining(remainingRequired)]

totalImportanceOf(remainingRequired, remainingMax) ==
  [i \in 1..4 |->
     20 * remainingRequired[i] * maxRemaining(remainingMax)
       + remainingMax[i] * maxRemaining(remainingRequired)]

\* multipliers[progress.rank] ?? 1
multipliers(rank) ==
  CASE rank = "none" -> 0
    [] rank = "bronze" -> 1
    [] rank = "silver" -> 4
    [] rank = "gold" -> 5
    [] OTHER -> 1

\* missionProgress[m.id] || { rank: "bronze", time: 1 }
progressOf(progressMap, id) ==
  IF id \in DOMAIN progressMap THEN progressMap[id]
  ELSE [rank |-> "bronze", time |-> 1]

\* yield without the exemption of critical missions
yieldAlwaysScaled(isCritical, base, bonus, rate, cap) ==
  Min2((base * bonus * (100 + rate)) \div 50, 2 * cap)

\* one of r1..r4, in halves: (100 + rate) / 100 is a multiple of 1/2 for
\* every rate of dataRates
yield(isCritical, base, bonus, rate, cap) ==
  IF isCritical THEN 2 * base
  ELSE Min2((base * bonus * (100 + rate)) \div 50, 2 * cap)

\* the demand cap that r1..r4 each use: remainingRequired[capReq[i]] + remainingMax[i]
capReq == <<1, 3, 3, 4>>

\* score / progress.time as an IEEE quotient: finite (num/den, den > 0),
\* an infinity (num is its sign) or NaN
Quotient(score, time) ==
  IF time > 0 THEN [kind |-> "fin", num |-> score, den |-> time]
  ELSE IF time < 0 THEN [kind |-> "fin", num |-> 0 - score, den |-> 0 - time]
  ELSE IF score > 0 THEN [kind |-> "inf", num |-> 1, den |-> 1]
  ELSE IF score < 0 THEN [kind |-> "inf", num |-> 0 - 1, den |-> 1]
  ELSE [kind |-> "nan", num |-> 0, den |-> 1]

\* x < y for two quotients that are not NaN
QLess(x, y) ==
  CASE x.kind = "fin" /\ y.kind = "fin" -> x.num * y.den < y.num * x.den
    [] x.kind = "inf" /\ y.kind = "fin" -> x.num < 0
    [] x.kind = "fin" /\ y.kind = "inf" -> y.num > 0
    [] OTHER -> x.num < y.num

scoreRow(m, progressMap, remainingRequired, remainingMax, rate) ==
  LET progress == progressOf(progressMap, m.id)
      bonus == multipliers(progress.rank)
      totalImportance == totalImportanceOf(remainingRequired, remainingMax)
      cap(i) == remainingRequired[capReq[i]] + remainingMax[i]
      r1 == yield(m.isCritical, m.research1, bonus, rate, cap(1))
      r2 == yield(m.isCritical, m.research2, bonus, rate, cap(2))
      r3 == yield(m.isCritical, m.research3, bonus, rate, cap(3))
      r4 == yield(m.isCritical, m.research4, bonus, rate, cap(4))
      score == r1 * totalImportance[1] + r2 * totalImportance[2]
                 + r3 * totalImportance[3] + r4 * totalImportance[4]
  IN  [mission |-> m, score |-> score, r1 |-> r1, r2 |-> r2, r3 |-> r3, r4 |-> r4,
       progress |-> progress, scorePerSecond |-> Quotient(score, progress.time)]

\* compare without its first key
compareScoreOnly(a, b) ==
  IF a.scorePerSecond.kind = "nan" \/ b.scorePerSecond.kind = "nan" THEN 0
  ELSE IF QLess(a.scorePerSecond, b.scorePerSecond) THEN 1
  ELSE IF QLess(b.scorePerSecond, a.scorePerSecond) THEN 0 - 1
  ELSE 0

\* the comparator handed to sort: negative, zero or positive (NaN counts as 0)
compare(a, b) ==
  IF a.progress.time # 1 /\ b.progress.time = 1 THEN 0 - 1
  ELSE IF a.progress.time = 1 /\ b.progress.time # 1 THEN 1
  ELSE IF a.scorePerSecond.kind = "nan" \/ b.scorePerSecond.kind = "nan" THEN 0
  ELSE IF QLess(a.scorePerSecond, b.scorePerSecond) THEN 1
  ELSE IF QLess(b.scorePerSecond, a.scorePerSecond) THEN 0 - 1
  ELSE 0

RECURSIVE insert(_, _)
\* x goes after the last element of the sorted prefix that it is not before
insert(sorted, x) ==
  IF sorted = <<>> THEN <<x>>
  ELSE LET last == sorted[Len(sorted)]
       IN  IF compare(x, last) < 0
           THEN insert(SubSeq(sorted, 1, Len(sorted) - 1), x) \o <<last>>
           ELSE sorted \o <<x>>

RECURSIVE sortFrom(_, _)
sortFrom(rows, sorted) ==
  IF rows = <<>> THEN sorted
  ELSE sortFrom(Tail(rows), insert(sorted, Head(rows)))

\* Array.prototype.sort (stable)
sort(rows) == sortFrom(rows, <<>>)

nullTable ==
  [isNull |-> TRUE, threw |-> FALSE,
   remainingRequired |-> [i \in 1..4 |-> 0], remainingMax |-> [i \in 1..4 |-> 0],
   totalImportance |-> [i \in 1..4 |-> 0], importanceDen |-> 20,
   missionsWithScores |-> <<>>]

\* MissionTable without its first line: reading researchValues.required of
\* null throws
MissionTableUnguarded(displayed, rv, level, research, progressMap, rate) ==
  IF rv = Null THEN [nullTable EXCEPT !.threw = TRUE]
  ELSE LET remainingRequired == remainingRequiredOf(rv, level, research)
           remainingMax == remainingMaxOf(rv, level, research)
       IN  [isNull |-> FALSE, threw |-> FALSE,
            remainingRequired |-> remainingRequired,
            remainingMax |-> remainingMax,
            totalImportance |-> totalImportanceOf(remainingRequired, remainingMax),
            importanceDen |-> importanceDen(remainingRequired, remainingMax),
            missionsWithScores |->
              sort([k \in 1..Len(displayed) |->
                     scoreRow(displayed[k], progressMap, remainingRequired, remainingMax, rate)])]

MissionTable(displayed, rv, level, research, progressMap, rate) ==
  IF rv = Null THEN nullTable
  ELSE LET remainingRequired == remainingRequiredOf(rv, level, research)
           remainingMax == remainingMaxOf(rv, level, research)
       IN  [isNull |-> FALSE, threw |-> FALSE,
            remainingRequired |-> remainingRequired,
            remainingMax |-> remainingMax,
            totalImportance |-> totalImportanceOf(remainingRequired, remainingMax),
            importanceDen |-> importanceDen(remainingRequired, remainingMax),
            missionsWithScores |->
              sort([k \in 1..Len(displayed) |->
                     scoreRow(displayed[k], progressMap, remainingRequired, remainingMax, rate)])]

----------------------------------------------------------------------------
(* App: what one render derives from the state *)

displayedMissions(ms, job) ==
  SelectSeq(ms, LAMBDA m : m.jobAbbreviation = job)

\* jobLevels[activeJob] || 1
levelOf(levels, job) ==
  IF job \in DOMAIN levels /\ levels[job] # 0 THEN levels[job] ELSE 1

\* jobResearch[activeJob] || { I: 0, II: 0, III: 0, IV: 0 }
researchOf(allResearch, job) ==
  IF job \in DOMAIN allResearch THEN allResearch[job]
  ELSE [t \in {"I", "II", "III", "IV"} |-> 0]

unlockedTiersOf(rv, level) ==
  IF rv = Null THEN <<>>
  ELSE SelectSeq(tiers, LAMBDA tier :
         LET i == CHOOSE k \in 1..4 : tiers[k] = tier
         IN  At(rv.required[i], level - 1) # 0 \/ At(rv.max[i], level - 1) # 0)

\* the MissionTable of a render of the App in the given state
renderTable(ms, job, rv, levels, allResearch, progressMap, rate) ==
  MissionTable(displayedMissions(ms, job), rv, levelOf(levels, job),
               researchOf(allResearch, job), progressMap, rate)

----------------------------------------------------------------------------
(* The CSV tables served with the application (data/*.csv), cut down to a  *)
(* few rows; a row is a function from its 0-based columns to cells, the    *)
(* wide WKSCosmoToolDataAmount row is the sequence of all its cells.       *)

JobRow(id, abbreviation, valid) ==
  (0 :> id) @@ (2 :> Txt(abbreviation)) @@ (9 :> valid)

UnitRow(id, rawJobId, rewardId, critical) ==
  (0 :> Num(id)) @@ (3 :> rawJobId) @@ (9 :> rewardId) @@ (13 :> Num(critical))

RewardRow(id, t1, q1, t2, q2, t3, q3) ==
  (0 :> Num(id)) @@ (8 :> t1) @@ (9 :> q1) @@ (11 :> t2) @@ (12 :> q2)
    @@ (14 :> t3) @@ (15 :> q3)

CosmoRow(values) == [k \in 1..Len(values) |-> Num(values[k])]

ClassJobData ==
  << JobRow(Num(1), "GLA", Num(0 - 1)),
     JobRow(Num(8), "CRP", Num(0)),
     JobRow(Num(9), "BSM", Num(1)) >>

MissionUnitData ==
  << UnitRow(101, Num(9), Num(1), 0),
     UnitRow(102, Num(9), Num(2), 0),
     UnitRow(103, Num(9), Num(3), 1),
     UnitRow(104, Num(10), Num(1), 0),
     UnitRow(105, Num(2), Num(1), 0),
     UnitRow(106, Num(9), Num(99), 0) >>

MissionRewardData ==
  << RewardRow(1, Num(1), Num(8), Num(2), Num(6), Num(0), Num(0)),
     RewardRow(2, Num(2), Num(4), Num(3), Num(5), Num(4), Num(3)),
     RewardRow(3, Num(1), Num(12), Num(2), Num(2), Num(3), Num(10)) >>

CurrentRow ==
  CosmoRow(<< 9, 0,
     100, 100, 120, 120, 150, 150, 160, 160, 150, 150, 180, 180, 200, 200, 200, 200, 200, 0,
     0, 0, 50, 50, 80, 80, 100, 100, 0, 0, 60, 60, 100, 100, 150, 150, 40, 0,
     0, 0, 0, 0, 60, 60, 90, 90, 0, 0, 0, 0, 90, 90, 120, 120, 30, 0,
     0, 0, 0, 0, 0, 0, 40, 40, 0, 0, 0, 0, 0, 0, 70, 70, 20, 0 >>)

OldRow == CosmoRow([k \in 1..74 |-> 1])

CosmoToolData == << OldRow, CurrentRow >>

----------------------------------------------------------------------------
(* Bounds and the inputs the user events are drawn from *)

\* the number of level, research, rank and time edits in one run
MaxEdits == 2

JobNames == {"GLA", "CRP", "BSM"}

\* Number(e.target.value) of the inputs; an emptied input gives 0
LevelInputs == {0, 5, 9, 10}
CurrentInputs == {0, 200}
TimeInputs == {0, 2}
RankOptions == {"none", "bronze", "silver", "gold"}

\* the jobLevels a previous session left in localStorage
StoredLevels == {[k \in {} |-> 0], [k \in {"BSM"} |-> 9]}

----------------------------------------------------------------------------
(* App *)

EmptyMap == [k \in {} |-> 0]

\* { ...map, [key]: value }
Put(map, key, value) ==
  [k \in DOMAIN map \cup {key} |-> IF k = key THEN value ELSE map[k]]

\* what the components derive from the next state when the App re-renders;
\* DataRate calls setDataRate while rendering, so the render that settles
\* shows the MissionTable with the rate of the current levels
Render ==
  /\ dataRate' = DataRate(jobLevels')
  /\ table' = renderTable(missions', activeJob', researchValues', jobLevels',
                          jobResearch', missionProgress', dataRate')
  /\ unlockedTiers' = unlockedTiersOf(researchValues', levelOf(jobLevels', activeJob'))

\* no callback of fetchData is running: the browser can deliver a user event
Idle == pc \in {"fetching", "loaded", "threw", "rejected"}

userVars == <<jobLevels, jobResearch, missionProgress>>

\* Promise.all rejects (a fetch fails): fetchData ends before its first setState
FetchReject ==
  /\ pc = "fetching"
  /\ pc' = "rejected"
  /\ UNCHANGED <<rawVars, missions, jobs, activeJob, researchValues, userVars, nEdits>>
  /\ Render

\* the body of fetchData after the await, its setState calls applied in one
\* render (batched updates)
FetchData ==
  /\ pc = "fetching"
  /\ jobs' = jobList(classJobRaw)
  /\ activeJob' = IF Len(jobs') > 0 THEN jobs'[1] ELSE activeJob
  /\ missions' = missionDisplays(classJobRaw, missionUnitRaw, missionRewardRaw)
  /\ IF cosmoToolRaw = <<>>
     THEN researchValues' = researchValues /\ pc' = "threw"
     ELSE researchValues' = parseCosmoToolData(cosmoToolRaw) /\ pc' = "loaded"
  /\ UNCHANGED <<rawVars, userVars, nEdits>>
  /\ Render

\* the same body with a render after each setState (updates not batched)
SetJobs ==
  /\ pc = "fetching"
  /\ jobs' = jobList(classJobRaw)
  /\ pc' = "setJobs"
  /\ UNCHANGED <<rawVars, missions, activeJob, researchValues, userVars, nEdits>>
  /\ Render

SetFirstActiveJob ==
  /\ pc = "setJobs"
  /\ activeJob' = IF Len(jobs) > 0 THEN jobs[1] ELSE activeJob
  /\ pc' = "setActiveJob"
  /\ UNCHANGED <<rawVars, missions, jobs, researchValues, userVars, nEdits>>
  /\ Render

SetMissions ==
  /\ pc = "setActiveJob"
  /\ missions' = missionDisplays(classJobRaw, missionUnitRaw, missionRewardRaw)
  /\ pc' = "setMissions"
  /\ UNCHANGED <<rawVars, jobs, activeJob, researchValues, userVars, nEdits>>
  /\ Render

SetResearchValues ==
  /\ pc = "setMissions"
  /\ IF cosmoToolRaw = <<>>
     THEN researchValues' = researchValues /\ pc' = "threw"
     ELSE researchValues' = parseCosmoToolData(cosmoToolRaw) /\ pc' = "loaded"
  /\ UNCHANGED <<rawVars, missions, jobs, activeJob, userVars, nEdits>>
  /\ Render

Load == FetchReject \/ FetchData \/ SetJobs \/ SetFirstActiveJob \/ SetMissions
          \/ SetResearchValues

\* Tabs: a click on the button of a job
SetActiveJob(abbr) ==
  /\ Idle
  /\ \E k \in 1..Len(jobs) : jobs[k] = abbr
  /\ activeJob' = abbr
  /\ UNCHANGED <<rawVars, pc, missions, jobs, researchValues, userVars, nEdits>>
  /\ Render

\* ResearchSummary: the "Current Level" input; value is Number(e.target.value)
SetLevel(newLevel) ==
  /\ Idle
  /\ researchValues # Null
  /\ nEdits < MaxEdits
  /\ nEdits' = nEdits + 1
  /\ jobLevels' = Put(jobLevels, activeJob, newLevel)
  /\ UNCHANGED <<rawVars, pc, missions, jobs, activeJob, researchValues,
                 jobResearch, missionProgress>>
  /\ Render

\* ResearchSummary: the "Current" input of a tier whose row is shown
handleCurrentChange(tier, value) ==
  /\ Idle
  /\ researchValues # Null
  /\ \E k \in 1..Len(unlockedTiers) : unlockedTiers[k] = tier
  /\ nEdits < MaxEdits
  /\ nEdits' = nEdits + 1
  /\ LET research == researchOf(jobResearch, activeJob)
         newResearch == [research EXCEPT ![tier] = value]
     IN  jobResearch' = Put(jobResearch, activeJob, newResearch)
  /\ UNCHANGED <<rawVars, pc, missions, jobs, activeJob, researchValues,
                 jobLevels, missionProgress>>
  /\ Render

\* MissionTable: the rank select of a row
RankChange(k, rank) ==
  /\ Idle
  /\ k \in 1..Len(table.missionsWithScores)
  /\ nEdits < MaxEdits
  /\ nEdits' = nEdits + 1
  /\ LET id == table.missionsWithScores[k].mission.id
         prev == IF id \in DOMAIN missionProgress THEN missionProgress[id]
                 ELSE [rank |-> "bronze", time |-> 1]
     IN  missionProgress' = Put(missionProgress, id, [prev EXCEPT !.rank = rank])
  /\ UNCHANGED <<rawVars, pc, missions, jobs, activeJob, researchValues,
                 jobLevels, jobResearch>>
  /\ Render

\* MissionTable: the time input of a row; a record made here for a mission
\* that has none gets no rank
TimeChange(k, value) ==
  /\ Idle
  /\ k \in 1..Len(table.missionsWithScores)
  /\ nEdits < MaxEdits
  /\ nEdits' = nEdits + 1
  /\ LET id == table.missionsWithScores[k].mission.id
         prev == IF id \in DOMAIN missionProgress THEN missionProgress[id]
                 ELSE [rank |-> "undefined", time |-> 0]
     IN  missionProgress' = Put(missionProgress, id, [prev EXCEPT !.time = value])
  /\ UNCHANGED <<rawVars, pc, missions, jobs, activeJob, researchValues,
                 jobLevels, jobResearch>>
  /\ Render

Init ==
  /\ classJobRaw = ClassJobData
  /\ missionUnitRaw = MissionUnitData
  /\ missionRewardRaw = MissionRewardData
  /\ cosmoToolRaw \in {CosmoToolData, <<>>}
  /\ pc = "fetching"
  /\ missions = <<>>
  /\ jobs = <<>>
  /\ activeJob = ""
  /\ researchValues = Null
  /\ jobLevels \in StoredLevels
  /\ jobResearch = EmptyMap
  /\ missionProgress = EmptyMap
  /\ dataRate = DataRate(jobLevels)
  /\ table = nullTable
  /\ unlockedTiers = <<>>
  /\ nEdits = 0

Next ==
  \/ Load
  \/ \E abbr \in JobNames : SetActiveJob(abbr)
  \/ \E newLevel \in LevelInputs : SetLevel(newLevel)
  \/ \E tier \in {"I", "II", "III", "IV"}, value \in CurrentInputs :
       handleCurrentChange(tier, value)
  \/ \E k \in 1..Len(table.missionsWithScores), rank \in RankOptions : RankChange(k, rank)
  \/ \E k \in 1..Len(table.missionsWithScores), value \in TimeInputs : TimeChange(k, value)

Spec == Init /\ [][Next]_vars

----------------------------------------------------------------------------
(* MissionTable as a function of its props *)

CrpIds == {Val(101), Val(102), Val(103)}

ProgressChoices ==
  { [rank |-> "gold", time |-> 2], [rank |-> "none", time |-> 5],
    [rank |-> "silver", time |-> 1], [rank |-> "undefined", time |-> 0] }

ResearchChoices ==
  { [t \in {"I", "II", "III", "IV"} |->
       CASE t = "I" -> a [] t = "II" -> b [] t = "III" -> c [] OTHER -> d] :
    a \in {0, 30, 200}, b \in {0, 200}, c \in {0, 200}, d \in {0, 200} }

InitScore ==
  /\ classJobRaw = ClassJobData
  /\ missionUnitRaw = MissionUnitData
  /\ missionRewardRaw = MissionRewardData
  /\ cosmoToolRaw = CosmoToolData
  /\ pc = "props"
  /\ missions = missionDisplays(ClassJobData, MissionUnitData, MissionRewardData)
  /\ jobs = jobList(ClassJobData)
  /\ activeJob = "CRP"
  /\ researchValues = parseCosmoToolData(CosmoToolData)
  /\ \E level \in 0..10 : jobLevels = [k \in {"CRP"} |-> level]
  /\ \E research \in ResearchChoices : jobResearch = [k \in {"CRP"} |-> research]
  /\ \E ids \in SUBSET CrpIds : missionProgress \in [ids -> ProgressChoices]
  /\ \E k \in DOMAIN dataRates : dataRate = dataRates[k]
  /\ table = nullTable
  /\ unlockedTiers = <<>>
  /\ nEdits = 0

\* one call of MissionTable with the props of the state
Score ==
  /\ pc = "props"
  /\ pc' = "scored"
  /\ table' = renderTable(missions, activeJob, researchValues, jobLevels,
                          jobResearch, missionProgress, dataRate)
  /\ unlockedTiers' = unlockedTiersOf(researchValues, levelOf(jobLevels, activeJob))
  /\ UNCHANGED <<rawVars, missions, jobs, activeJob, researchValues, userVars,
                 dataRate, nEdits>>

SpecScore == InitScore /\ [][Score]_vars

----------------------------------------------------------------------------
(* DataRate as a function of the level map *)

\* the number of jobs in the level map
NumJobs == 12

AllJobNames ==
  <<"CRP", "BSM", "ARM", "GSM", "LTW", "WVR", "ALC", "CUL", "MIN", "BTN", "FSH",
    "GLA", "PGL", "MRD">>

InitRate ==
  /\ classJobRaw = <<>>
  /\ missionUnitRaw = <<>>
  /\ missionRewardRaw = <<>>
  /\ cosmoToolRaw = <<>>
  /\ pc = "levels"
  /\ missions = <<>>
  /\ jobs = <<>>
  /\ activeJob = ""
  /\ researchValues = Null
  /\ jobLevels \in [{AllJobNames[k] : k \in 1..NumJobs} -> {8, 9}]
  /\ jobResearch = EmptyMap
  /\ missionProgress = EmptyMap
  /\ dataRate = 0
  /\ table = nullTable
  /\ unlockedTiers = <<>>
  /\ nEdits = 0

\* one render of DataRate
SetDataRate ==
  /\ pc = "levels"
  /\ pc' = "rate"
  /\ dataRate' = DataRate(jobLevels)
  /\ UNCHANGED <<rawVars, missions, jobs, activeJob, researchValues, userVars,
                 table, unlockedTiers, nEdits>>

SpecRate == InitRate /\ [][SetDataRate]_vars

----------------------------------------------------------------------------
(* Properties of the scoring step *)

Rows == table.missionsWithScores

\* the four yields of a row and the four base yields of its mission
Yields(row) == <<row.r1, row.r2, row.r3, row.r4>>
BaseYields(row) ==
  <<row.mission.research1, row.mission.research2, row.mission.research3,
    row.mission.research4>>

\* C1 (as claimed): the yield of a non-critical mission for a tier never
\* exceeds remainingRequired + remainingMax of that same tier (yields are in
\* halves, hence the factor 2)
C1_CapCorrectness ==
  \A k \in DOMAIN Rows : \A i \in 1..4 :
    ~Rows[k].mission.isCritical =>
      Yields(Rows[k])[i] <= 2 * (table.remainingRequired[i] + table.remainingMax[i])

\* a / b >= c / d for positive b and d
AtLeast(a, b, c, d) == a * d >= c * b

AllTimesPositive == \A k \in DOMAIN Rows : Rows[k].progress.time > 0

\* C2: measured missions (time # 1) come before unmeasured ones (time = 1),
\* and when the times are positive each group is in non-increasing order of
\* scorePerSecond = score / time
C2_RankingOrder ==
  \A i, j \in DOMAIN Rows :
    i < j =>
      /\ ~(Rows[i].progress.time = 1 /\ Rows[j].progress.time # 1)
      /\ (/\ AllTimesPositive
          /\ (Rows[i].progress.time = 1) = (Rows[j].progress.time = 1))
         => AtLeast(Rows[i].score, Rows[i].progress.time,
                    Rows[j].score, Rows[j].progress.time)

\* a measured mission stands before an unmeasured one that scores more per second
C2_Witness ==
  /\ pc = "scored"
  /\ Len(Rows) = 3
  /\ AllTimesPositive
  /\ \E i, j \in DOMAIN Rows :
       /\ i < j
       /\ Rows[i].progress.time # 1
       /\ Rows[j].progress.time = 1
       /\ ~AtLeast(Rows[i].score, Rows[i].progress.time,
                   Rows[j].score, Rows[j].progress.time)
  /\ \E i, j \in DOMAIN Rows :
       /\ i < j
       /\ Rows[i].progress.time # 1
       /\ Rows[j].progress.time # 1
       /\ Rows[i].score * Rows[j].progress.time > Rows[j].score * Rows[i].progress.time

\* C3: a critical mission yields exactly its base yield in every tier
C3_CriticalInvariance ==
  \A k \in DOMAIN Rows : \A i \in 1..4 :
    Rows[k].mission.isCritical => Yields(Rows[k])[i] = 2 * BaseYields(Rows[k])[i]

\* a critical mission ranked gold, at the highest rate, with a base yield above
\* the remaining demand of its tier
C3_Witness ==
  /\ pc = "scored"
  /\ dataRate = 150
  /\ \E k \in DOMAIN Rows :
       /\ Rows[k].mission.isCritical
       /\ Rows[k].progress.rank = "gold"
       /\ Rows[k].mission.research1 > table.remainingRequired[1] + table.remainingMax[1]
       /\ Rows[k].r1 = 2 * Rows[k].mission.research1

NothingRemains ==
  \A i \in 1..4 : table.remainingRequired[i] = 0 /\ table.remainingMax[i] = 0

\* C5: when nothing remains in any tier, every mission scores 0
C5_ZeroRemaining ==
  (pc = "scored" /\ NothingRemains) => \A k \in DOMAIN Rows : Rows[k].score = 0

\* nothing remains and a critical mission keeps its positive yields
C5_Witness ==
  /\ pc = "scored"
  /\ NothingRemains
  /\ Len(Rows) = 3
  /\ \E k \in DOMAIN Rows :
       Rows[k].mission.isCritical /\ Rows[k].r1 > 0 /\ Rows[k].score = 0

\* C6: at a level in 1..9, remainingRequired = max(required - current, 0) and
\* remainingMax = max(min(max - current, max - required), 0) with the entries
\* of the player's level, and both are >= 0
C6_RemainingDemand ==
  (pc = "scored" /\ activeJob \in DOMAIN jobLevels /\ jobLevels[activeJob] \in 1..9) =>
    \A i \in 1..4 :
      LET level == jobLevels[activeJob]
          required == researchValues.required[i][level].v
          max == researchValues.max[i][level].v
          current == jobResearch[activeJob][tiers[i]]
          short == required - current
          toCap == max - current
          bonus == max - required
          least == IF toCap <= bonus THEN toCap ELSE bonus
      IN  /\ table.remainingRequired[i] = (IF short >= 0 THEN short ELSE 0)
          /\ table.remainingMax[i] = (IF least >= 0 THEN least ELSE 0)
          /\ table.remainingRequired[i] >= 0
          /\ table.remainingMax[i] >= 0

\* required 100, max 150, current 30 gives 70 and 50
C6_Witness ==
  /\ pc = "scored"
  /\ jobLevels[activeJob] = 1
  /\ researchValues.required[1][1].v = 100
  /\ researchValues.max[1][1].v = 150
  /\ jobResearch[activeJob]["I"] = 30
  /\ table.remainingRequired[1] = 70
  /\ table.remainingMax[1] = 50

----------------------------------------------------------------------------
(* fetchData over varying CSV tables *)

\* a row whose 74 cells all differ
DistinctRow == CosmoRow([k \in 1..74 |-> 1000 + k])

\* a row that ends inside the block of tier II
ShortRow == CosmoRow([k \in 1..30 |-> k])

JobTables ==
  { ClassJobData,
    <<>>,
    << JobRow(Num(8), "CRP", Num(0)) >>,
    << JobRow(Num(8), "CRP", Num(0)), JobRow(Num(8), "CR2", Num(3)), JobRow(Num(9), "BSM", Txt("x")) >>,
    << JobRow(Txt("x"), "BAD", Num(0)), JobRow(Num(1), "GLA", Num(0)) >> }

UnitRows ==
  { UnitRow(101, Num(9), Num(1), 0),
    UnitRow(103, Num(9), Num(3), 1),
    UnitRow(105, Num(2), Num(1), 0),
    UnitRow(106, Num(9), Num(99), 0),
    UnitRow(107, Txt("x"), Num(2), 0) }

UnitTables ==
  {MissionUnitData, <<>>} \cup {<<a>> : a \in UnitRows}
    \cup {<<a, b>> : a \in UnitRows, b \in UnitRows}
    \cup {<<a, b, UnitRow(102, Num(9), Num(2), 0)>> : a \in UnitRows, b \in UnitRows}

RewardTables ==
  { MissionRewardData,
    <<>>,
    << RewardRow(1, Num(1), Num(8), Num(1), Num(2), Num(5), Num(7)),
       RewardRow(2, Num(4), Txt("x"), Txt("x"), Num(3), Num(3), Num(5)) >>,
    << RewardRow(1, Num(1), Num(8), Num(2), Num(6), Num(0), Num(0)),
       RewardRow(1, Num(3), Num(9), Num(0), Num(0), Num(0), Num(0)),
       RewardRow(3, Num(4), Num(1), Num(0), Num(0), Num(0), Num(0)) >> }

CosmoTables ==
  { CosmoToolData, <<>>, << CurrentRow, OldRow >>, << OldRow, DistinctRow >>,
    << ShortRow >> }

InitLoad ==
  /\ classJobRaw \in JobTables
  /\ missionUnitRaw \in UnitTables
  /\ missionRewardRaw \in RewardTables
  /\ cosmoToolRaw \in CosmoTables
  /\ pc = "fetching"
  /\ missions = <<>>
  /\ jobs = <<>>
  /\ activeJob = ""
  /\ researchValues = Null
  /\ jobLevels = EmptyMap
  /\ jobResearch = EmptyMap
  /\ missionProgress = EmptyMap
  /\ dataRate = 0
  /\ table = nullTable
  /\ unlockedTiers = <<>>
  /\ nEdits = 0

SpecLoad == InitLoad /\ [][Load]_vars

----------------------------------------------------------------------------
(* Properties of the normalisation, the data rate and the App state *)

\* C4 (as claimed): the rate is the table entry of the number of jobs at
\* level >= 9, that number clamped to the table's last index 11
C4_DataRateClamped ==
  pc = "rate" =>
    LET count == Cardinality({j \in DOMAIN jobLevels : jobLevels[j] >= 9})
        clamped == IF count > 11 THEN 11 ELSE count
    IN  dataRate = dataRates[clamped + 1]

\* C7 (as claimed): every stored level and the level handed to the scoring
\* step is in 1..9
C7_LevelDomain ==
  /\ \A j \in DOMAIN jobLevels : jobLevels[j] \in 1..9
  /\ levelOf(jobLevels, activeJob) \in 1..9

LastRow == cosmoToolRaw[Len(cosmoToolRaw)]

ParsedValues ==
  {researchValues.required[i][l] : i \in 1..4, l \in 1..9}
    \cup {researchValues.max[i][l] : i \in 1..4, l \in 1..9}

\* C8 (as claimed): the 72 values come from 72 distinct columns of the last
\* row, so a last row whose cells all differ gives 72 different values
C8_DistinctColumns ==
  (/\ researchValues # Null
   /\ Len(LastRow) >= 74
   /\ \A a, b \in 1..Len(LastRow) : a # b => LastRow[a] # LastRow[b])
  => Cardinality(ParsedValues) = 72

\* C9: until the load has completed the scoring step gives no row and no
\* unlocked tier, and does not throw
C9_NotLoadedTolerance ==
  pc # "loaded" =>
    /\ missions = <<>> \/ researchValues = Null
    /\ table.missionsWithScores = <<>>
    /\ unlockedTiers = <<>>
    /\ ~table.threw

\* the load stopped after setMissions (the requirement table has no row), the
\* user switched the job, and a stored level is there for the scoring step
C9_Witness ==
  /\ pc = "threw"
  /\ missions # <<>>
  /\ researchValues = Null
  /\ activeJob = "BSM"
  /\ "BSM" \in DOMAIN jobLevels
  /\ table.missionsWithScores = <<>>

JobCatalog == parseClassJobs(classJobRaw)
RewardCatalog == parseMissionRewards(missionRewardRaw)

RawJobId(k) == Number(Cell(missionUnitRaw[k], 3))
RewardId(k) == Number(Cell(missionUnitRaw[k], 9))

\* raw job id - 1 (NaN - 1 is NaN, and a Map finds the key NaN)
CorrectedJobId(k) == Minus1(RawJobId(k))

JobFound(k) == MapHas(JobCatalog, CorrectedJobId(k))
RewardFound(k) == MapHas(RewardCatalog, RewardId(k))

KeptRows == {k \in 1..Len(missionUnitRaw) : JobFound(k) /\ RewardFound(k)}

MissionsSet == pc \in {"setMissions", "loaded", "threw"}

\* C10: the missions are the rows whose job (raw id - 1) and reward are in the
\* catalogs, in the order of the rows, each with the abbreviation of that job
\* and the four yields of that reward
C10_MissionJoin ==
  MissionsSet =>
    /\ Len(missions) = Cardinality(KeptRows)
    /\ \A k \in KeptRows :
         LET m == missions[Cardinality({n \in KeptRows : n <= k})]
             job == MapGet(JobCatalog, CorrectedJobId(k))
             reward == MapGet(RewardCatalog, RewardId(k))
         IN  /\ m.id = Number(Cell(missionUnitRaw[k], 0))
             /\ m.jobAbbreviation = job.abbreviation
             /\ <<m.research1, m.research2, m.research3, m.research4>>
                  = <<reward.researchRewards[1], reward.researchRewards[2],
                      reward.researchRewards[3], reward.researchRewards[4]>>

\* a row without a job and a row without a reward are dropped and the row
\* after them is kept
C10_Witness ==
  /\ pc = "loaded"
  /\ Len(missionUnitRaw) = 3
  /\ ~JobFound(1) /\ RewardFound(1)
  /\ JobFound(2) /\ ~RewardFound(2)
  /\ KeptRows = {3}
  /\ Len(missions) = 1
  /\ missions[1].jobAbbreviation = "CRP"

\* C11 (as claimed): every record stored in the progress map has a rank among
\* none, bronze, silver and gold; a record made by a time edit alone has the
\* default rank bronze
C11_RankDomain ==
  \A id \in DOMAIN missionProgress :
    missionProgress[id].rank \in {"none", "bronze", "silver", "gold"}

====
